---- MODULE Spec2Model ----
(***************************************************************************)
(* A model of filefs2 (src/fs.c): a single-image, inode based filesystem.  *)
(*                                                                         *)
(* The image is a flat byte buffer.  The model keeps its three regions as  *)
(* separate variables:                                                     *)
(*   used    the bits of the free-block bitmap that are set                *)
(*   inodes  the inode table, one record per inode                         *)
(*   mem     the bytes of the blocks [DataStart, MemTop], byte by byte,    *)
(*           in the layout of struct entry / unsigned short on a little-   *)
(*           endian machine, so that a block written as file content and   *)
(*           later read as directory entries is read as the code reads it. *)
(* A step that dereferences a block outside [DataStart, MemTop] as content *)
(* (or an inode index outside the table) has an effect that depends on the *)
(* byte layout of the system sectors; it sets the flag wild, and no step   *)
(* is taken from a wild state.                                             *)
(*                                                                         *)
(* fs.h is not part of the sources; FSSIZE, BLKSIZE, DREFSIZE, NAMESIZE    *)
(* and TOTAL_INODES are scaled-down stand-ins chosen so that the sector    *)
(* sizes of setup_sectors divide evenly.                                   *)
(***************************************************************************)
EXTENDS Integers, Sequences, FiniteSets, TLC

\* ---------------------------------------------------------------- fs.h
FSSIZE == 16384
BLKSIZE == 32
DREFSIZE == 1
NAMESIZE == 4
TOTAL_INODES == 10

\* ---------------------------------------------------------------- fs.c
TOTAL_BLOCKS == FSSIZE \div BLKSIZE

\* sizeof(struct inode): DREFSIZE+1 shorts and one char, padded to a short
INODE_BYTES == 2 * DREFSIZE + 4

\* sizeof(struct entry): name[NAMESIZE] (a multiple of 4) and three 32-bit fields
ENTRY_BYTES == NAMESIZE + 12

BLOCK_ENTRIES == BLKSIZE \div ENTRY_BYTES

E_FILE == 0
E_DIR == 1

\* enum sector_types, the indices of meta.sectors
SUPER == 0
FREELIST == 1
INODES == 2
DATA == 3

\* ------------------------------------------------------- model bounds
\* longest path, in components
MaxDepth == 3
\* the source files are 0, SmallLen, BLKSIZE and
\* 3*BLKSIZE+SmallLen bytes long
SmallLen == 5
\* the number of commands run on the image after the first format
MaxOps == 3

\* meta, used, inodes, mem: the image; wild: see above; last: the command run
\* last and what it reported; nops: the number of commands run
VARIABLES meta, used, inodes, mem, wild, last, nops

vars == <<meta, used, inodes, mem, wild, last, nops>>

\* Op applied to v: a local variable, assigned once and read by what follows
With(v, Op(_)) == Op(v)

\* ------------------------------------------------------------- bytes
Min(a, b) == IF a < b THEN a ELSE b

ZeroBlock == [i \in 1..BLKSIZE |-> 0]

\* the four bytes of a 32-bit value, least significant first
LE32(v) == <<v % 256, (v \div 256) % 256, (v \div 65536) % 256, (v \div 16777216) % 256>>

\* the two bytes of an unsigned short
LE16(v) == <<v % 256, (v \div 256) % 256>>

RdLE32(blk, off) ==
  blk[off + 1] + 256 * blk[off + 2] + 65536 * blk[off + 3] + 16777216 * blk[off + 4]

RdLE16(blk, off) == blk[off + 1] + 256 * blk[off + 2]

\* blk with bytes written at byte offset off (0-based)
Patch(blk, off, bytes) ==
  [i \in 1..BLKSIZE |->
     IF i > off /\ i <= off + Len(bytes) THEN bytes[i - off] ELSE blk[i]]

Zeros(n) == [i \in 1..n |-> 0]

\* setup_sectors: the assignments in program order, one operator per sector
setup_super(m) ==
  [[[[m EXCEPT !.total_blocks = TOTAL_BLOCKS]
        EXCEPT !.total_blocks = TOTAL_INODES]
        EXCEPT !.block_bytes = BLKSIZE]
        EXCEPT !.sectors[SUPER] = [sector_start |-> 0, sector_size |-> 1]]

setup_freelist(m) ==
  [m EXCEPT !.sectors[FREELIST] =
     [sector_start |-> m.sectors[SUPER].sector_size,
      sector_size  |-> (TOTAL_BLOCKS \div 8) \div BLKSIZE]]

setup_inodes(m) ==
  [m EXCEPT !.sectors[INODES] =
     [sector_start |-> m.sectors[FREELIST].sector_start
                         + m.sectors[FREELIST].sector_size,
      sector_size  |-> TOTAL_INODES \div (BLKSIZE \div INODE_BYTES)]]

setup_data(m) ==
  [m EXCEPT !.sectors[DATA] =
     [sector_start |-> m.sectors[INODES].sector_start
                         + m.sectors[INODES].sector_size,
      sector_size  |-> m.total_blocks
                         - (m.sectors[FREELIST].sector_size
                              + m.sectors[INODES].sector_size)]]

\* ------------------------------------------------------------ layout
setup_sectors(m0) == setup_data(setup_inodes(setup_freelist(setup_super(m0))))

\* the metadata record after bzero(fs, FSSIZE)
ZeroMeta ==
  [total_blocks |-> 0, total_inodes |-> 0, block_bytes |-> 0,
   sectors |-> [s \in 0..3 |-> [sector_start |-> 0, sector_size |-> 0]]]

FormattedMeta == setup_sectors(ZeroMeta)

DataStart == FormattedMeta.sectors[DATA].sector_start

\* the highest block whose bytes the model keeps: the allocator's sentinel
MemTop == FormattedMeta.total_blocks

Addressable == DataStart..MemTop

\* struct metadata read as an array of unsigned short (block_ref(0) taken as
\* an indirect block): the 32-bit fields in order, low half first
MetaWords(m) ==
  <<m.total_blocks, m.total_inodes, m.block_bytes,
    m.sectors[SUPER].sector_start, m.sectors[SUPER].sector_size,
    m.sectors[FREELIST].sector_start, m.sectors[FREELIST].sector_size,
    m.sectors[INODES].sector_start, m.sectors[INODES].sector_size,
    m.sectors[DATA].sector_start, m.sectors[DATA].sector_size>>

MetaShort(m, k) ==
  IF k < 2 * Len(MetaWords(m))
    THEN IF k % 2 = 0 THEN MetaWords(m)[(k \div 2) + 1] % 65536
                      ELSE (MetaWords(m)[(k \div 2) + 1] \div 65536) % 65536
    ELSE 0

\* ------------------------------------------------------------- state
\* The operators below compute on a record st = [used, inodes, mem, wild],
\* the image during one command; meta is fixed after format.
ZeroInode == [dref |-> [i \in 1..DREFSIZE |-> 0], iref |-> 0, total_ref |-> 0]

NULL == [b |-> -1, j |-> 0]

\* block_ref(b) read as content
Blk(st, b) == IF b \in Addressable THEN st.mem[b] ELSE ZeroBlock

\* inodes[n]
Ino(st, n) == IF n \in 0..(TOTAL_INODES - 1) THEN st.inodes[n] ELSE ZeroInode

SetWild(st, c) == [st EXCEPT !.wild = @ \/ c]

\* a write of bytes at byte offset off of block b
Store(st, b, off, bytes) ==
  IF b \in Addressable
    THEN [st EXCEPT !.mem[b] = Patch(@, off, bytes)]
    ELSE SetWild(st, TRUE)

\* the number of bits in the bitmap sector; bit n of a higher n lies in the
\* inode table
BitmapBits == FormattedMeta.sectors[FREELIST].sector_size * BLKSIZE * 8

\* Bit list manipulation
bitlist_up(st, n) == SetWild([st EXCEPT !.used = @ \cup {n}], n >= BitmapBits)

bitlist_down(st, n) == SetWild([st EXCEPT !.used = @ \ {n}], n >= BitmapBits)

bitlist_status(st, n) == n \in st.used

\* Get a free data block: [st, i], i = m.total_blocks when none is free
get_data_block(m, st) ==
  LET free == {i \in m.sectors[DATA].sector_start..(m.total_blocks - 1) :
                 ~bitlist_status(st, i)}
  IN IF free = {}
       THEN [st |-> st, i |-> m.total_blocks]
       ELSE LET i == CHOOSE x \in free : \A y \in free : x <= y
            IN [st |-> bitlist_up(st, i), i |-> i]

\* Get a free inode: TOTAL_INODES when none is free
get_inode(st) ==
  LET free == {i \in 0..(TOTAL_INODES - 1) : st.inodes[i].total_ref = 0}
  IN IF free = {} THEN TOTAL_INODES
                  ELSE CHOOSE x \in free : \A y \in free : x <= y

\* FOREACH_BLOCK: the block of chain position i (0-based) of inode record ino
\* indirect = block_ref(ino.iref), read as unsigned short[]
IndirectAt(m, st, iref, k) ==
  IF iref = 0 THEN MetaShort(m, k)
  ELSE IF 2 * k + 2 <= BLKSIZE THEN RdLE16(Blk(st, iref), 2 * k)
  ELSE 0

BlockOf(m, st, ino, i) ==
  IF i < DREFSIZE THEN ino.dref[i + 1] ELSE IndirectAt(m, st, ino.iref, i - DREFSIZE)

\* the blocks of inode n in chain order
Chain(m, st, n) ==
  LET ino == Ino(st, n)
  IN [i \in 1..ino.total_ref |-> BlockOf(m, st, ino, i - 1)]

\* walking the content of inode n's chain leaves the modelled memory
WildChain(m, st, n) ==
  \/ n \notin 0..(TOTAL_INODES - 1)
  \/ \E i \in 1..Ino(st, n).total_ref :
        \/ Chain(m, st, n)[i] \notin Addressable
        \/ i - 1 >= DREFSIZE /\ 2 * (i - 1 - DREFSIZE) + 2 > BLKSIZE
        \/ i - 1 >= DREFSIZE /\ Ino(st, n).iref # 0 /\ Ino(st, n).iref \notin Addressable

\* ----------------------------------------------------------- entries
\* an entry pointer is [b, j]: slot j (0-based) of block b
NameOff(e) == e.j * ENTRY_BYTES
SizeOff(e) == e.j * ENTRY_BYTES + NAMESIZE
TypeOff(e) == e.j * ENTRY_BYTES + NAMESIZE + 4
InodeOff(e) == e.j * ENTRY_BYTES + NAMESIZE + 8

EntrySize(st, e) == RdLE32(Blk(st, e.b), SizeOff(e))
EntryType(st, e) == RdLE32(Blk(st, e.b), TypeOff(e))
EntryInode(st, e) == RdLE32(Blk(st, e.b), InodeOff(e))

\* strcmp(name, entry_ptr->name) == 0: the bytes at the entry equal name and
\* are followed by a NUL (name is shorter than an entry, so the comparison
\* stays inside the block)
StrEq(name, blk, off) ==
  /\ \A i \in 1..Len(name) : blk[off + i] = name[i]
  /\ blk[off + Len(name) + 1] = 0

\* Search for an entry by name: the first match in chain order, or NULL
search_entry(m, st, n, name) ==
  With(Chain(m, st, n), LAMBDA ch :
    With({s \in 0..(Len(ch) * BLOCK_ENTRIES - 1) :
            StrEq(name, Blk(st, ch[(s \div BLOCK_ENTRIES) + 1]),
                  (s % BLOCK_ENTRIES) * ENTRY_BYTES)},
         LAMBDA hits :
           IF hits = {} THEN NULL
           ELSE LET s == CHOOSE x \in hits : \A y \in hits : x <= y
                IN [b |-> ch[(s \div BLOCK_ENTRIES) + 1], j |-> s % BLOCK_ENTRIES]))

\* Returns number of entries in a directory
entry_count(m, st, n) ==
  With(Chain(m, st, n), LAMBDA ch :
    Cardinality({s \in 0..(Len(ch) * BLOCK_ENTRIES - 1) :
       EntryInode(st, [b |-> ch[(s \div BLOCK_ENTRIES) + 1],
                       j |-> s % BLOCK_ENTRIES]) # 0}))

\* ------------------------------------------------------------ growth
\* Expand inode, using the indirect references: [st, r], r = -1 on failure
expand_indirect(m, st, n, block) ==
  With(IF st.inodes[n].iref = 0 THEN get_data_block(m, st)
                                ELSE [st |-> st, i |-> st.inodes[n].iref],
       LAMBDA g :
         IF st.inodes[n].iref = 0 /\ g.i = m.total_blocks
           THEN [st |-> st, r |-> -1]
           ELSE With([g.st EXCEPT !.inodes[n].iref = g.i], LAMBDA s1 :
                  LET k == s1.inodes[n].total_ref - DREFSIZE
                  IN [st |-> IF 2 * k + 2 <= BLKSIZE
                               THEN Store(s1, g.i, 2 * k, LE16(block))
                               ELSE SetWild(s1, TRUE),
                      r |-> 0]))

\* expand without the test for the allocator's sentinel
expand_unchecked(m, st, n) ==
  With(get_data_block(m, st), LAMBDA g :
    With(IF g.st.inodes[n].total_ref < DREFSIZE
           THEN [g.st EXCEPT
                   !.inodes[n].dref[g.st.inodes[n].total_ref + 1] = g.i]
           ELSE expand_indirect(m, g.st, n, g.i).st,
         LAMBDA s1 :
           [st |-> [s1 EXCEPT !.inodes[n].total_ref = (@ + 1) % 256],
            r |-> g.i]))

\* Expand inode, using the direct references: [st, r], r the new block or -1
\* total_ref is an unsigned char
expand(m, st, n) ==
  With(get_data_block(m, st), LAMBDA g :
    IF g.i = m.total_blocks
      THEN [st |-> st, r |-> -1]
      ELSE With(IF g.st.inodes[n].total_ref < DREFSIZE
                  THEN [g.st EXCEPT
                          !.inodes[n].dref[g.st.inodes[n].total_ref + 1] = g.i]
                  ELSE expand_indirect(m, g.st, n, g.i).st,
                LAMBDA s1 :
                  [st |-> [s1 EXCEPT !.inodes[n].total_ref = (@ + 1) % 256],
                   r |-> g.i]))

\* the new entry written at slot: name, inode, type and size
NewEntry(st, slot, name, inode) ==
  Store(Store(Store(Store(st, slot.b, NameOff(slot),
                          [i \in 1..NAMESIZE |->
                             IF i <= Len(name) THEN name[i] ELSE 0]),
                    slot.b, InodeOff(slot), LE32(inode)),
              slot.b, TypeOff(slot), LE32(E_DIR)),
        slot.b, SizeOff(slot), LE32(0))

\* get_entry that grows the directory for every new entry, free slot or not
get_entry_alwaysgrow(m, st, dir, name) ==
  With(EntryInode(st, dir), LAMBDA n :
  With(SetWild(st, WildChain(m, st, n)), LAMBDA w0 :
  With(search_entry(m, w0, n, name), LAMBDA hit :
    IF hit # NULL THEN [st |-> w0, e |-> hit, crash |-> FALSE]
    ELSE
    With(NULL, LAMBDA slot0 :
    With(IF slot0 = NULL THEN expand(m, w0, n) ELSE [st |-> w0, r |-> 0],
         LAMBDA x :
      IF x.r = -1 THEN [st |-> x.st, e |-> NULL, crash |-> FALSE]
      ELSE
      With(SetWild(x.st, WildChain(m, x.st, n)), LAMBDA w1 :
      With(IF slot0 = NULL THEN search_entry(m, w1, n, <<>>) ELSE slot0,
           LAMBDA slot :
      With(get_inode(w1), LAMBDA inode :
        IF inode = TOTAL_INODES THEN [st |-> w1, e |-> NULL, crash |-> FALSE]
        ELSE
        With(expand(m, [w1 EXCEPT !.inodes[inode] = ZeroInode], inode),
             LAMBDA y :
          IF y.r = -1 THEN [st |-> y.st, e |-> NULL, crash |-> FALSE]
          ELSE IF slot = NULL THEN [st |-> y.st, e |-> NULL, crash |-> TRUE]
          ELSE [st |-> NewEntry(y.st, slot, name, inode), e |-> slot,
                crash |-> FALSE])))))))))

\* Add entry by name, or return existing entry: [st, e, crash]
\* dir is the entry of the directory; e = NULL on failure.  When the block the
\* directory grew by holds no free slot, search_entry returns NULL and the
\* strncpy through it ends the process: crash, with what was written so far.
get_entry(m, st, dir, name) ==
  With(EntryInode(st, dir), LAMBDA n :
  With(SetWild(st, WildChain(m, st, n)), LAMBDA w0 :
  With(search_entry(m, w0, n, name), LAMBDA hit :
    IF hit # NULL THEN [st |-> w0, e |-> hit, crash |-> FALSE]
    ELSE
    With(search_entry(m, w0, n, <<>>), LAMBDA slot0 :
    With(IF slot0 = NULL THEN expand(m, w0, n) ELSE [st |-> w0, r |-> 0],
         LAMBDA x :
      IF x.r = -1 THEN [st |-> x.st, e |-> NULL, crash |-> FALSE]
      ELSE
      With(SetWild(x.st, WildChain(m, x.st, n)), LAMBDA w1 :
      With(IF slot0 = NULL THEN search_entry(m, w1, n, <<>>) ELSE slot0,
           LAMBDA slot :
      With(get_inode(w1), LAMBDA inode :
        IF inode = TOTAL_INODES THEN [st |-> w1, e |-> NULL, crash |-> FALSE]
        ELSE
        With(expand(m, [w1 EXCEPT !.inodes[inode] = ZeroInode], inode),
             LAMBDA y :
          IF y.r = -1 THEN [st |-> y.st, e |-> NULL, crash |-> FALSE]
          ELSE IF slot = NULL THEN [st |-> y.st, e |-> NULL, crash |-> TRUE]
          ELSE [st |-> NewEntry(y.st, slot, name, inode), e |-> slot,
                crash |-> FALSE])))))))))

\* Write data to entry: the loop of write_entry, one read() per round.
\* blk is block_ptr, i the offset in it, pos the bytes of src consumed;
\* read() of a regular file returns min(bytes left, bytes asked for).
\* (The bytes of the model are below 48, so no 32-bit field reaches 2^31.)
RECURSIVE WriteLoop(_, _, _, _, _, _, _, _)
WriteLoop(m, st, e, n, blk, i, pos, src) ==
  LET got == Min(Len(src) - pos, BLKSIZE - i)
  IN IF got = 0 THEN st
     ELSE
     With(Store(st, blk, i, SubSeq(src, pos + 1, pos + got)), LAMBDA s1 :
     With(Store(s1, e.b, SizeOff(e), LE32(EntrySize(s1, e) + got)), LAMBDA s2 :
       IF i = BLKSIZE
         THEN With(expand(m, s2, n), LAMBDA x :
                IF x.r = -1 THEN x.st
                ELSE WriteLoop(m, x.st, e, n, x.r, 0, pos + got, src))
         ELSE WriteLoop(m, s2, e, n, blk, i + got, pos + got, src)))

write_entry(m, st, e, src) ==
  With(EntryInode(st, e), LAMBDA n :
    With(SetWild(st, n \notin 0..(TOTAL_INODES - 1)), LAMBDA w0 :
      WriteLoop(m, Store(w0, e.b, SizeOff(e), LE32(0)), e, n,
                Ino(w0, n).dref[1], 0, 0, src)))

\* the "/" entry: the first entry of the root's first block
RootEntry(st) == [b |-> st.inodes[0].dref[1], j |-> 0]

\* addfilefs with no type check at all
RECURSIVE AddWalk_nocheck(_, _, _, _, _)
AddWalk_nocheck(m, st, e, path, src) ==
  IF path = <<>>
    THEN [st |-> Store(write_entry(m, st, e, src), e.b, TypeOff(e), LE32(E_FILE)),
          err |-> "ok"]
    ELSE With(get_entry(m, st, e, Head(path)), LAMBDA g :
           IF g.crash THEN [st |-> g.st, err |-> "crash"]
           ELSE IF g.e = NULL THEN [st |-> g.st, err |-> "alloc"]
           ELSE AddWalk_nocheck(m, g.st, g.e, Tail(path), src))

\* addfilefs with the type check on the components before the last only
RECURSIVE AddWalk_lastexempt(_, _, _, _, _)
AddWalk_lastexempt(m, st, e, path, src) ==
  IF path = <<>>
    THEN [st |-> Store(write_entry(m, st, e, src), e.b, TypeOff(e), LE32(E_FILE)),
          err |-> "ok"]
    ELSE With(get_entry(m, st, e, Head(path)), LAMBDA g :
           IF g.crash THEN [st |-> g.st, err |-> "crash"]
           ELSE IF g.e = NULL THEN [st |-> g.st, err |-> "alloc"]
           ELSE IF Tail(path) # <<>> /\ EntryType(g.st, g.e) = E_FILE
           THEN [st |-> g.st, err |-> "type"]
           ELSE AddWalk_lastexempt(m, g.st, g.e, Tail(path), src))

\* addfilefs after a successful open: [st, err].  err tells how the command
\* ended: "ok"; "alloc" (get_entry returned NULL) and "type" (the entry is a
\* file), which both print "Error: Invalid subdir"; or "crash".
RECURSIVE AddWalk(_, _, _, _, _)
AddWalk(m, st, e, path, src) ==
  IF path = <<>>
    THEN [st |-> Store(write_entry(m, st, e, src), e.b, TypeOff(e), LE32(E_FILE)),
          err |-> "ok"]
    ELSE With(get_entry(m, st, e, Head(path)), LAMBDA g :
           IF g.crash THEN [st |-> g.st, err |-> "crash"]
           ELSE IF g.e = NULL THEN [st |-> g.st, err |-> "alloc"]
           ELSE IF EntryType(g.st, g.e) = E_FILE THEN [st |-> g.st, err |-> "type"]
           ELSE AddWalk(m, g.st, g.e, Tail(path), src))

addfilefs(m, st, path, src) == AddWalk(m, st, RootEntry(st), path, src)

\* FOREACH_BLOCK(inode_ptr) bitlist_down(block)
RECURSIVE BitsDown(_, _)
BitsDown(st, blocks) ==
  IF blocks = <<>> THEN st ELSE BitsDown(bitlist_down(st, Head(blocks)), Tail(blocks))

\* entry_remove that zeroes the entry and leaves the inode as it is
entry_remove_keepinode(m, st, e) ==
  With(EntryInode(st, e), LAMBDA n :
  With(SetWild(st, n \notin 0..(TOTAL_INODES - 1)), LAMBDA w0 :
  With(BitsDown(w0, Chain(m, w0, n)), LAMBDA s1 :
  With(IF Ino(s1, n).iref > 0 THEN bitlist_down(s1, Ino(s1, n).iref) ELSE s1,
       LAMBDA s2 :
    Store(s2, e.b, NameOff(e), Zeros(ENTRY_BYTES))))))

\* Remove entry from a directory
entry_remove(m, st, e) ==
  With(EntryInode(st, e), LAMBDA n :
  With(SetWild(st, n \notin 0..(TOTAL_INODES - 1)), LAMBDA w0 :
  With(BitsDown(w0, Chain(m, w0, n)), LAMBDA s1 :
  With(IF Ino(s1, n).iref > 0 THEN bitlist_down(s1, Ino(s1, n).iref) ELSE s1,
       LAMBDA s2 :
  With(IF n \in 0..(TOTAL_INODES - 1)
         THEN [s2 EXCEPT !.inodes[n] = ZeroInode] ELSE s2,
       LAMBDA s3 :
    Store(s3, e.b, NameOff(e), Zeros(ENTRY_BYTES)))))))

\* remove-along-path that deletes the file and prunes no directory
RECURSIVE entry_remove_path_noprune(_, _, _, _)
entry_remove_path_noprune(m, st, n, path) ==
  IF path = <<>> THEN [st |-> st, err |-> "ok"]
  ELSE
  With(SetWild(st, WildChain(m, st, n)), LAMBDA w0 :
  With(search_entry(m, w0, n, Head(path)), LAMBDA e :
    IF e = NULL THEN [st |-> w0, err |-> "not found"]
    ELSE IF EntryType(w0, e) = E_DIR
      THEN entry_remove_path_noprune(m, w0, EntryInode(w0, e), Tail(path))
    ELSE IF EntryType(w0, e) = E_FILE
      THEN [st |-> entry_remove(m, w0, e), err |-> "ok"]
    ELSE [st |-> w0, err |-> "ok"]))

\* Remove entry by following a path: [st, err]
\* n is the directory's inode, path what strtok has not yet returned
RECURSIVE entry_remove_path(_, _, _, _)
entry_remove_path(m, st, n, path) ==
  IF path = <<>> THEN [st |-> st, err |-> "ok"]
  ELSE
  With(SetWild(st, WildChain(m, st, n)), LAMBDA w0 :
  With(search_entry(m, w0, n, Head(path)), LAMBDA e :
    IF e = NULL THEN [st |-> w0, err |-> "not found"]
    ELSE IF EntryType(w0, e) = E_DIR
      THEN With(EntryInode(w0, e), LAMBDA en :
           With(entry_remove_path(m, w0, en, Tail(path)), LAMBDA r :
           With(SetWild(r.st, WildChain(m, r.st, en)), LAMBDA w1 :
             [st |-> IF entry_count(m, w1, en) = 0
                       THEN entry_remove(m, w1, e) ELSE w1,
              err |-> r.err])))
    ELSE IF EntryType(w0, e) = E_FILE
      THEN [st |-> entry_remove(m, w0, e), err |-> "ok"]
    ELSE [st |-> w0, err |-> "ok"]))

\* Read data from entry to file: the bytes written to out
RECURSIVE ReadLoop(_, _, _)
ReadLoop(st, blocks, size) ==
  IF blocks = <<>> THEN <<>>
  ELSE LET k == IF size > BLKSIZE THEN BLKSIZE ELSE size
       IN SubSeq(Blk(st, Head(blocks)), 1, k) \o ReadLoop(st, Tail(blocks), size - k)

entry_read(m, st, e) == ReadLoop(st, Chain(m, st, EntryInode(st, e)), EntrySize(st, e))

\* extractfilefs: [err, out, wild]; e is the entry found last, n the directory
RECURSIVE ExtractWalk(_, _, _, _, _)
ExtractWalk(m, st, n, e, path) ==
  IF path = <<>>
    THEN [err |-> "ok", out |-> entry_read(m, st, e),
          wild |-> WildChain(m, st, EntryInode(st, e))]
    ELSE With(search_entry(m, st, n, Head(path)), LAMBDA f :
           IF WildChain(m, st, n) THEN [err |-> "ok", out |-> <<>>, wild |-> TRUE]
           ELSE IF f = NULL THEN [err |-> "not found", out |-> <<>>, wild |-> FALSE]
           ELSE IF EntryType(st, f) = E_DIR
             THEN ExtractWalk(m, st, EntryInode(st, f), f, Tail(path))
           ELSE ExtractWalk(m, st, n, f, <<>>))

extractfilefs(m, st, path) == ExtractWalk(m, st, 0, NULL, path)

\* ----------------------------------------------------------- format
\* create_root that marks the "/" entry as a file
create_root_asfile(m, st) ==
  With(expand(m, st, 0), LAMBDA x :
    LET e == [b |-> x.r, j |-> 0]
    IN Store(Store(Store(Store(x.st, e.b, NameOff(e), <<47>>),
                         e.b, TypeOff(e), LE32(E_FILE)),
                   e.b, InodeOff(e), LE32(0)),
             e.b, SizeOff(e), LE32(0)))

create_root(m, st) ==
  With(expand(m, st, 0), LAMBDA x :
    LET e == [b |-> x.r, j |-> 0]
    IN Store(Store(Store(Store(x.st, e.b, NameOff(e), <<47>>),
                         e.b, TypeOff(e), LE32(E_DIR)),
                   e.b, InodeOff(e), LE32(0)),
             e.b, SizeOff(e), LE32(0)))

RECURSIVE BitsUp(_, _, _)
BitsUp(st, start, n) ==
  IF n = 0 THEN st ELSE BitsUp(bitlist_up(st, start), start + 1, n - 1)

\* the image after bzero(fs, FSSIZE)
ZeroImage ==
  [used |-> {}, inodes |-> [i \in 0..(TOTAL_INODES - 1) |-> ZeroInode],
   mem |-> [b \in Addressable |-> ZeroBlock], wild |-> FALSE]

formatfs ==
  With(setup_sectors(ZeroMeta), LAMBDA m :
    [m |-> m,
     st |-> create_root(m,
              BitsUp(BitsUp(bitlist_up(ZeroImage, 0),
                            m.sectors[FREELIST].sector_start,
                            m.sectors[FREELIST].sector_size),
                     m.sectors[INODES].sector_start,
                     m.sectors[INODES].sector_size))])

\* ----------------------------------------------------------- inputs
\* path components: the characters are small numbers
Names == {<<1>>, <<2>>}

RECURSIVE PathsOfLen(_)
PathsOfLen(k) ==
  IF k = 0 THEN {<<>>}
  ELSE {<<nm>> \o p : nm \in Names, p \in PathsOfLen(k - 1)}

Paths == UNION {PathsOfLen(k) : k \in 1..MaxDepth}

\* the host files an add reads: byte j (0-based) is 1 + j % 2
SrcOfLen(k) == [j \in 1..k |-> 1 + ((j - 1) % 2)]

\* the lengths of the host files: empty, a single byte (the shortest file
\* that reads as a named entry), a part of a block, one block, several blocks
\* and a remainder
SrcLens == {0, 1, SmallLen, BLKSIZE, 3 * BLKSIZE + SmallLen}

\* the longest path component an add is given: one byte more than the
\* NAMESIZE bytes an entry's name field holds
MaxName == 5

\* the components that fill the name field or exceed it
LongNames == {[i \in 1..k |-> 1] : k \in NAMESIZE..MaxName}

\* the paths addfilefs is given: the short ones, and a long component in "/"
AddPaths == Paths \cup {<<nm>> : nm \in LongNames}

\* ----------------------------------------------------------- actions
Image == [used |-> used, inodes |-> inodes, mem |-> mem, wild |-> wild]

Install(st) ==
  /\ used' = st.used
  /\ inodes' = st.inodes
  /\ mem' = st.mem
  /\ wild' = st.wild

\* st holds the bitmap, inode table and blocks of the current image
Same(st) == st.used = used /\ st.inodes = inodes /\ st.mem = mem

\* last: the command run last (op), how it ended (err), the number of
\* components of its path (plen) and whether it changed the image (changed)
Report(op, err, path, st) ==
  [op |-> op, err |-> err, plen |-> Len(path), changed |-> ~Same(st)]

Init ==
  /\ \E f \in {formatfs} :
        /\ meta = f.m
        /\ used = f.st.used
        /\ inodes = f.st.inodes
        /\ mem = f.st.mem
        /\ wild = f.st.wild
  /\ last = [op |-> "format", err |-> "ok", plen |-> 0, changed |-> TRUE]
  /\ nops = 0

\* a command can run: the image is inside the model and the session is not over
Ready == ~wild /\ nops < MaxOps

Format ==
  /\ Ready
  /\ \E f \in {formatfs} :
        /\ meta' = f.m
        /\ Install(f.st)
        /\ last' = Report("format", "ok", <<>>, f.st)
  /\ nops' = nops + 1

\* addfilefs(path) when the host file path cannot be opened
AddNoFile(path) ==
  /\ Ready
  /\ last' = Report("add", "open", path, Image)
  /\ nops' = nops + 1
  /\ UNCHANGED <<meta, used, inodes, mem, wild>>

\* addfilefs(path) when the host file path holds len bytes
Add(path, len) ==
  /\ Ready
  /\ \E r \in {addfilefs(meta, Image, path, SrcOfLen(len))} :
        /\ Install(r.st)
        /\ last' = Report("add", r.err, path, r.st)
  /\ nops' = nops + 1
  /\ UNCHANGED meta

\* removefilefs(path)
Remove(path) ==
  /\ Ready
  /\ \E r \in {entry_remove_path(meta, Image, 0, path)} :
        /\ Install(r.st)
        /\ last' = Report("remove", r.err, path, r.st)
  /\ nops' = nops + 1
  /\ UNCHANGED meta

\* extractfilefs(path): the bytes go to stdout, the image is only read
Extract(path) ==
  /\ Ready
  /\ \E r \in {extractfilefs(meta, Image, path)} :
        /\ wild' = r.wild
        /\ last' = Report("extract", r.err, path, Image)
  /\ nops' = nops + 1
  /\ UNCHANGED <<meta, used, inodes, mem>>

Next ==
  \/ Format
  \/ \E p \in Paths : AddNoFile(p)
  \/ \E p \in AddPaths, k \in SrcLens : Add(p, k)
  \/ \E p \in Paths : Remove(p)
  \/ \E p \in Paths : Extract(p)

Spec == Init /\ [][Next]_vars

\* ------------------------------------------------- reading a tree
\* The entries a path names in image st, from directory inode n down: the
\* entry of each component found in turn, up to the first component that is
\* not found or the first entry that is a file.
RECURSIVE Res(_, _, _, _)
Res(m, st, n, path) ==
  IF path = <<>> THEN <<>>
  ELSE LET e == search_entry(m, st, n, Head(path))
       IN IF e = NULL THEN <<>>
          ELSE IF EntryType(st, e) = E_FILE THEN <<e>>
          ELSE <<e>> \o Res(m, st, EntryInode(st, e), Tail(path))

\* path names a file of st through directories
ResolvesToFile(m, st, path) ==
  LET es == Res(m, st, 0, path)
  IN /\ Len(es) = Len(path)
     /\ EntryType(st, es[Len(es)]) = E_FILE
     /\ \A i \in 1..(Len(es) - 1) : EntryType(st, es[i]) = E_DIR

\* component i of path exists and is a file, the ones before it exist and are not
FileAt(m, st, path, i) ==
  LET es == Res(m, st, 0, path)
  IN Len(es) = i /\ EntryType(st, es[i]) = E_FILE

\* some component of path does not exist and no component before it is a file
Missing(m, st, path) ==
  LET es == Res(m, st, 0, path)
  IN /\ Len(es) < Len(path)
     /\ (es # <<>> => EntryType(st, es[Len(es)]) # E_FILE)

\* the bytes of entry e
EntryBytes(st, e) == SubSeq(Blk(st, e.b), NameOff(e) + 1, NameOff(e) + ENTRY_BYTES)

\* the blocks inode n of st refers to: its chain and its indirect block
RefsIn(m, st, n) ==
  {Chain(m, st, n)[i] : i \in 1..Ino(st, n).total_ref}
    \cup (IF Ino(st, n).iref # 0 THEN {Ino(st, n).iref} ELSE {})

\* ------------------------------------------------------------ claims
InodeIds == 0..(TOTAL_INODES - 1)

\* the blocks inode n reaches by chain traversal, as a set
ChainSet(n) == {Chain(meta, Image, n)[i] : i \in 1..inodes[n].total_ref}

\* the blocks inode n refers to: its chain and its indirect block
Refs(n) == ChainSet(n) \cup (IF inodes[n].iref # 0 THEN {inodes[n].iref} ELSE {})

SystemBlocks == 0..(DataStart - 1)

\* C2: every inode with total_ref = n reaches n pairwise distinct blocks by
\* chain traversal, all of them marked used, and its indirect block is nonzero
\* and marked used exactly when n exceeds the direct capacity.
C2_BitmapChainConsistent ==
  ~wild =>
    \A n \in InodeIds :
      /\ Cardinality(ChainSet(n)) = inodes[n].total_ref
      /\ ChainSet(n) \subseteq used
      /\ (inodes[n].iref # 0 /\ inodes[n].iref \in used) <=> (inodes[n].total_ref > DREFSIZE)

\* C3: a block is marked used exactly when some inode refers to it or it is a
\* block of the superblock, bitmap or inode-table sector.
C3_BitmapExact ==
  ~wild =>
    \A b \in 0..(TOTAL_BLOCKS - 1) :
      (b \in used) <=> (b \in SystemBlocks \/ \E n \in InodeIds : b \in Refs(n))

Fresh == used = formatfs.st.used /\ inodes = formatfs.st.inodes /\ mem = formatfs.st.mem

\* C1: on a freshly formatted image, after a successful add of a k-byte source
\* at a path, the entry records size k and extract of the path emits the k
\* bytes of the source, for every k of SrcLens.
C1_RoundTrip ==
  [][Fresh =>
       \A p \in Paths, k \in SrcLens :
         (Add(p, k) /\ last'.err = "ok") =>
           LET es == Res(meta', Image', 0, p)
               x == extractfilefs(meta', Image', p)
           IN /\ ResolvesToFile(meta', Image', p)
              /\ EntrySize(Image', es[Len(es)]) = k
              /\ x.err = "ok"
              /\ x.out = SrcOfLen(k)]_vars


\* the entries of path p that remove-along-path is to delete: the file, and
\* each directory above it all of whose descendants on the path held one
\* live entry
PrunedIdx(p) ==
  LET es == Res(meta, Image, 0, p)
  IN {i \in 1..Len(es) :
        \A j \in i..(Len(es) - 1) :
          entry_count(meta, Image, EntryInode(Image, es[j])) = 1}

\* C5: when path p names a file through directories, remove deletes that
\* entry (entry zeroed, inode zeroed, blocks freed) and every directory of
\* the path left without live entries, never the root, and nothing else
\* changes.
C5_RemovePrunesPostOrder ==
  ~wild =>
    \A p \in Paths :
      ResolvesToFile(meta, Image, p) =>
        LET es == Res(meta, Image, 0, p)
            r == entry_remove_path(meta, Image, 0, p)
            pruned == PrunedIdx(p)
            gone == {EntryInode(Image, es[i]) : i \in pruned}
            freed == UNION {RefsIn(meta, Image, n) : n \in gone}
            zeroed(b, x) == \E i \in pruned :
                              /\ es[i].b = b
                              /\ x > NameOff(es[i])
                              /\ x <= NameOff(es[i]) + ENTRY_BYTES
        IN ~r.st.wild =>
             /\ r.err = "ok"
             /\ 0 \notin gone
             /\ r.st.inodes = [n \in InodeIds |->
                                 IF n \in gone THEN ZeroInode ELSE inodes[n]]
             /\ r.st.used = used \ freed
             /\ r.st.mem = [b \in Addressable |-> [x \in 1..BLKSIZE |->
                              IF zeroed(b, x) THEN 0 ELSE mem[b][x]]]

\* a remove of a path of two or more components has deleted entries and left
\* in the root a directory that still has live entries
C5_Witness ==
  /\ ~wild
  /\ last.op = "remove" /\ last.err = "ok" /\ last.changed /\ last.plen >= 2
  /\ \E nm \in Names :
       LET e == search_entry(meta, Image, 0, nm)
       IN /\ e # NULL
          /\ EntryType(Image, e) = E_DIR
          /\ entry_count(meta, Image, EntryInode(Image, e)) > 0

\* p is /a/b/c: c a file and a live entry (entry_count counts it), the only
\* live entry of b, and b the only live entry of a
LoneChain(p) ==
  /\ Len(p) = 3
  /\ ResolvesToFile(meta, Image, p)
  /\ LET es == Res(meta, Image, 0, p)
     IN /\ EntryInode(Image, es[3]) # 0
        /\ entry_count(meta, Image, EntryInode(Image, es[1])) = 1
        /\ entry_count(meta, Image, EntryInode(Image, es[2])) = 1

\* C6, as claimed: removing /a/b/c.txt, the only entry of b, itself the only
\* entry of a, leaves /a in the root as an empty directory.
C6_LeavesTopDirectory ==
  ~wild =>
    \A p \in Paths :
      LoneChain(p) =>
        LET r == entry_remove_path(meta, Image, 0, p)
            a == search_entry(meta, r.st, 0, Head(p))
        IN ~r.st.wild =>
             /\ a # NULL
             /\ EntryType(r.st, a) = E_DIR
             /\ Ino(r.st, EntryInode(r.st, a)).total_ref > 0
             /\ entry_count(meta, r.st, EntryInode(r.st, a)) = 0

\* C6, amended: removing /a/b/c.txt, the only entry of b, itself the only
\* entry of a, removes c.txt, b and a; the root stays.
C6_PrunesUpToRoot ==
  ~wild =>
    \A p \in Paths :
      LoneChain(p) =>
        LET es == Res(meta, Image, 0, p)
            r == entry_remove_path(meta, Image, 0, p)
        IN ~r.st.wild =>
             /\ search_entry(meta, r.st, 0, Head(p)) = NULL
             /\ \A i \in 1..3 :
                  /\ EntryBytes(r.st, es[i]) = Zeros(ENTRY_BYTES)
                  /\ Ino(r.st, EntryInode(Image, es[i])) = ZeroInode
                  /\ RefsIn(meta, Image, EntryInode(Image, es[i])) \cap r.st.used = {}
             /\ r.st.inodes[0] = inodes[0]
             /\ r.st.inodes[0].dref[1] \in r.st.used

\* a remove of a path of three components has deleted entries and left the
\* root without live entries and every other inode free
C6_Witness ==
  /\ ~wild
  /\ last.op = "remove" /\ last.err = "ok" /\ last.changed /\ last.plen = 3
  /\ entry_count(meta, Image, 0) = 0
  /\ inodes[0].total_ref > 0
  /\ \A n \in InodeIds \ {0} : inodes[n] = ZeroInode

\* C7: a remove or an extract that reports an entry as not found leaves the
\* image as it was.
C7_NotFoundLeavesImage ==
  (last.op \in {"remove", "extract"} /\ last.err = "not found") => ~last.changed

\* C8: an add whose path has a component before the last that exists as a
\* file fails on the type check and leaves the image as it was.
C8_TypeConflictNoChange ==
  ~wild =>
    \A p \in Paths, k \in SrcLens :
      (\E i \in 1..(Len(p) - 1) : FileAt(meta, Image, p, i)) =>
        LET r == addfilefs(meta, Image, p, SrcOfLen(k))
        IN r.err = "type" /\ Same(r.st) /\ ~r.st.wild

\* an add has just failed on the type check at a component before the last
C8_Witness ==
  /\ ~wild
  /\ last.op = "add" /\ last.err = "type" /\ ~last.changed
  /\ \E p \in Paths :
       Len(p) = last.plen /\ \E i \in 1..(Len(p) - 1) : FileAt(meta, Image, p, i)

\* every block the allocator scans is marked used
Full == \A b \in meta.sectors[DATA].sector_start..(meta.total_blocks - 1) : b \in used

\* C9: once every block the allocator scans is marked used, an add that has
\* to create an entry fails and leaves the image as it was.
C9_ExhaustionSafe ==
  (~wild /\ Full) =>
    \A p \in Paths, k \in SrcLens :
      Missing(meta, Image, p) =>
        LET r == addfilefs(meta, Image, p, SrcOfLen(k))
        IN r.err = "alloc" /\ Same(r.st)

\* an add that had to create an entry has just failed on a full image
C9_Witness ==
  /\ ~wild /\ Full
  /\ last.op = "add" /\ last.err = "alloc" /\ ~last.changed
  /\ \E p \in Paths : Len(p) = last.plen /\ Missing(meta, Image, p)

\* C10, as claimed: an add at a path whose last component exists as a file
\* succeeds and leaves the entry a file with the size of the new source.
C10_OverwritesExistingFile ==
  ~wild =>
    \A p \in Paths, k \in SrcLens :
      FileAt(meta, Image, p, Len(p)) =>
        LET r == addfilefs(meta, Image, p, SrcOfLen(k))
            es == Res(meta, r.st, 0, p)
        IN /\ r.err = "ok"
           /\ FileAt(meta, r.st, p, Len(p))
           /\ EntrySize(r.st, es[Len(es)]) = Min(k, BLKSIZE)

\* C10, amended: the type check applies to every component, the last one
\* too: an add at a path whose last component exists as a file fails on it
\* and leaves the image as it was; an add that succeeds leaves the last
\* component a file.
C10_RejectsExistingFile ==
  ~wild =>
    \A p \in Paths, k \in SrcLens :
      LET r == addfilefs(meta, Image, p, SrcOfLen(k))
      IN /\ FileAt(meta, Image, p, Len(p)) => (r.err = "type" /\ Same(r.st))
         /\ (r.err = "ok" /\ ~r.st.wild) => FileAt(meta, r.st, p, Len(p))

\* an add at a path whose last component is a file has just failed on the
\* type check
C10_Witness ==
  /\ ~wild
  /\ last.op = "add" /\ last.err = "type" /\ ~last.changed
  /\ \E p \in Paths : Len(p) = last.plen /\ FileAt(meta, Image, p, Len(p))

\* ------------------------------------------------------------ format
\* the blocks of sector s of the sector table
SectorBlocks(s) ==
  meta.sectors[s].sector_start
    ..(meta.sectors[s].sector_start + meta.sectors[s].sector_size - 1)

\* C11: after format, from any prior image content, the blocks marked used
\* are block 0, the bitmap sector, the inode-table sector and the one data
\* block of inode 0; inode 0 has total_ref 1 and its first block holds the
\* entry "/" with inode 0 and type directory; every other inode has
\* total_ref 0; the root has no live child.
C11_FormatPostcondition ==
  last.op = "format" =>
    /\ ~wild
    /\ inodes[0].total_ref = 1
    /\ inodes[0].dref[1] \in DataStart..(TOTAL_BLOCKS - 1)
    /\ used = {0} \cup SectorBlocks(FREELIST) \cup SectorBlocks(INODES)
                \cup {inodes[0].dref[1]}
    /\ Cardinality(used) = 2 + meta.sectors[FREELIST].sector_size
                             + meta.sectors[INODES].sector_size
    /\ StrEq(<<47>>, Blk(Image, RootEntry(Image).b), NameOff(RootEntry(Image)))
    /\ EntryInode(Image, RootEntry(Image)) = 0
    /\ EntryType(Image, RootEntry(Image)) = E_DIR
    /\ \A n \in InodeIds \ {0} : inodes[n].total_ref = 0
    /\ entry_count(meta, Image, 0) = 0
    /\ \A nm \in Names : search_entry(meta, Image, 0, nm) = NULL

\* a format command has run on an image that commands had worked on
C11_Witness == last.op = "format" /\ nops >= 2

\* C12: after format the superblock's total-block-count field is the number
\* of blocks of the image (image size / block size), its total-inode-count
\* field is the configured number of inodes and its block-size field is the
\* block size; no later command changes these fields.
C12_MetadataRecord ==
  /\ meta.total_blocks = FSSIZE \div BLKSIZE
  /\ meta.total_inodes = TOTAL_INODES
  /\ meta.block_bytes = BLKSIZE

\* C13: inode 0 is reserved: inode allocation never returns 0 (inode 0 always
\* has total_ref > 0), no entry a path resolves to refers to inode 0 (the
\* root's own "/" record is not reached by any path), and no remove frees
\* inode 0 or its blocks.
C13_InodeZeroReserved ==
  ~wild =>
    /\ inodes[0].total_ref > 0
    /\ get_inode(Image) # 0
    /\ \A p \in Paths :
         \A i \in 1..Len(Res(meta, Image, 0, p)) :
           EntryInode(Image, Res(meta, Image, 0, p)[i]) # 0
    /\ \A p \in Paths :
         LET r == entry_remove_path(meta, Image, 0, p)
         IN ~r.st.wild =>
              /\ r.st.inodes[0] = inodes[0]
              /\ RefsIn(meta, Image, 0) \cap used \subseteq r.st.used

\* the blocks the allocator can still hand out
FreeBlocks ==
  {b \in meta.sectors[DATA].sector_start..(meta.total_blocks - 1) : b \notin used}

\* the blocks a grow of inode n has to allocate: the data block, and the
\* indirect block when the reference is the first one past the direct ones
GrowNeeds(n) ==
  IF inodes[n].total_ref >= DREFSIZE /\ inodes[n].iref = 0 THEN 2 ELSE 1

\* C14: a grow that fails because a block cannot be allocated (the data
\* block, or the indirect block after the data block was obtained) signals
\* failure and leaves the inode's total_ref, its references and the bitmap as
\* they were.
C14_GrowAllOrNothing ==
  ~wild =>
    \A n \in InodeIds :
      Cardinality(FreeBlocks) < GrowNeeds(n) =>
        /\ expand(meta, Image, n).r = -1
        /\ expand(meta, Image, n).st.inodes = inodes
        /\ expand(meta, Image, n).st.used = used

\* C15: allocate_block returns the lowest block of [data sector start, total
\* block count of the image) whose bit is clear and sets that bit; it returns
\* the image's total block count exactly when every block of that range is
\* marked used; it never returns a block whose bit it did not set.
C15_AllocateScansDataSector ==
  ~wild =>
    LET g == get_data_block(meta, Image)
        free == {b \in meta.sectors[DATA].sector_start..(TOTAL_BLOCKS - 1) :
                   b \notin used}
    IN /\ free # {} =>
            /\ g.i \in free
            /\ \A y \in free : g.i <= y
            /\ g.st.used = used \cup {g.i}
       /\ (g.i = TOTAL_BLOCKS) <=> (free = {})
       /\ g.i # TOTAL_BLOCKS => g.i \in g.st.used

\* the block after the last block of sector s
SectorEnd(s) == meta.sectors[s].sector_start + meta.sectors[s].sector_size

\* C16: after format the sectors lie in the order superblock, bitmap, inode
\* table, data; each starts where the one before ends (the superblock at
\* block 0 with size 1); the data sector covers all remaining blocks: data
\* start + data size is the image's total block count.
C16_SectorsPartitionImage ==
  /\ meta.sectors[SUPER] = [sector_start |-> 0, sector_size |-> 1]
  /\ meta.sectors[FREELIST].sector_start = SectorEnd(SUPER)
  /\ meta.sectors[INODES].sector_start = SectorEnd(FREELIST)
  /\ meta.sectors[DATA].sector_start = SectorEnd(INODES)
  /\ SectorEnd(DATA) = FSSIZE \div BLKSIZE

\* ------------------------------------------------- find_or_create
\* the directories of the image: the "/" record and every entry of type
\* directory that a path resolves to
DirEntries ==
  {RootEntry(Image)}
    \cup UNION {{Res(meta, Image, 0, p)[i] : i \in 1..Len(Res(meta, Image, 0, p))}
                  : p \in Paths}

Dirs == {d \in DirEntries : EntryType(Image, d) = E_DIR}

\* C17: when a name is not present in a directory whose chain holds a free
\* slot, find_or_create puts the new entry in a free slot, leaves the
\* directory's total_ref and block references unchanged and raises its
\* live-entry count by one; the directory's chain grows, by one block, only
\* when no free slot exists.
C17_FreeSlotReuse ==
  ~wild =>
    \A d \in Dirs, nm \in Names :
      LET n == EntryInode(Image, d)
          slot0 == search_entry(meta, Image, n, <<>>)
          g == get_entry(meta, Image, d, nm)
      IN (/\ ~WildChain(meta, Image, n)
          /\ search_entry(meta, Image, n, nm) = NULL
          /\ ~g.st.wild /\ ~g.crash) =>
           /\ slot0 # NULL =>
                /\ g.st.inodes[n] = inodes[n]
                /\ g.e # NULL =>
                     /\ g.e = slot0
                     /\ search_entry(meta, g.st, n, nm) = slot0
                     /\ entry_count(meta, g.st, n) = entry_count(meta, Image, n) + 1
           /\ g.st.inodes[n] # inodes[n] =>
                /\ slot0 = NULL
                /\ g.st.inodes[n].total_ref = inodes[n].total_ref + 1

\* a directory holds a free slot before a live entry (a slot released by a
\* remove), and find_or_create of a new name takes that slot
C17_Witness ==
  /\ ~wild
  /\ last.op = "remove" /\ last.err = "ok"
  /\ \E d \in Dirs, nm \in Names :
       LET n == EntryInode(Image, d)
           slot0 == search_entry(meta, Image, n, <<>>)
           g == get_entry(meta, Image, d, nm)
       IN /\ ~WildChain(meta, Image, n)
          /\ search_entry(meta, Image, n, nm) = NULL
          /\ slot0 # NULL
          /\ \E nm2 \in Names :
               LET e2 == search_entry(meta, Image, n, nm2)
               IN /\ e2 # NULL
                  /\ EntryInode(Image, e2) # 0
                  /\ \/ e2.b # slot0.b
                     \/ e2.j > slot0.j
          /\ ~g.st.wild /\ g.e = slot0

\* C18: a directory that find_or_create has just created is empty: its
\* live-entry count is 0 and find returns not-found in it for every name,
\* also when its block was owned before by a removed file or directory.
C18_NewDirectoryEmpty ==
  ~wild =>
    \A d \in Dirs, nm \in Names :
      LET n == EntryInode(Image, d)
          g == get_entry(meta, Image, d, nm)
      IN (/\ ~WildChain(meta, Image, n)
          /\ search_entry(meta, Image, n, nm) = NULL
          /\ ~g.st.wild /\ ~g.crash /\ g.e # NULL) =>
           /\ entry_count(meta, g.st, EntryInode(g.st, g.e)) = 0
           /\ \A nm2 \in Names :
                search_entry(meta, g.st, EntryInode(g.st, g.e), nm2) = NULL

\* ------------------------------------------------------ the entry tree
\* the live entries (inode field not 0) of the directory with inode n
LiveEntries(m, st, n) ==
  {e \in {[b |-> Chain(m, st, n)[i], j |-> j] :
            i \in 1..Ino(st, n).total_ref, j \in 0..(BLOCK_ENTRIES - 1)} :
     EntryInode(st, e) # 0}

\* the live entries of the directories within k levels below inode n
RECURSIVE LiveTree(_, _, _, _)
LiveTree(m, st, n, k) ==
  IF k = 0 \/ WildChain(m, st, n) THEN {}
  ELSE LiveEntries(m, st, n)
         \cup UNION {LiveTree(m, st, EntryInode(st, e), k - 1) :
                       e \in {x \in LiveEntries(m, st, n) :
                                EntryType(st, x) = E_DIR}}

\* C19: every inode other than 0 with total_ref > 0 is the child of exactly
\* one live entry of a directory reachable from the root, and the child
\* inode of every live entry has total_ref > 0; also after an add whose
\* final component names an existing directory that has children.
C19_NoOrphansNoDangling ==
  ~wild =>
    /\ \A n \in InodeIds \ {0} :
         inodes[n].total_ref > 0 =>
           Cardinality({e \in LiveTree(meta, Image, 0, MaxDepth + 1) :
                          EntryInode(Image, e) = n}) = 1
    /\ \A e \in LiveTree(meta, Image, 0, MaxDepth + 1) :
         /\ EntryInode(Image, e) \in InodeIds
         /\ inodes[EntryInode(Image, e)].total_ref > 0

\* the bytes of the name field of entry e
StoredName(st, e) == SubSeq(Blk(st, e.b), NameOff(e) + 1, NameOff(e) + NAMESIZE)

\* C20: no directory holds two live entries with the same stored name, for
\* components of every length, the ones that fill or exceed the name field
\* (stored truncated) included; adding the same path twice never creates a
\* second entry.
C20_NamesUnique ==
  ~wild =>
    \A d \in Dirs :
      ~WildChain(meta, Image, EntryInode(Image, d)) =>
        \A e1, e2 \in LiveEntries(meta, Image, EntryInode(Image, d)) :
          StoredName(Image, e1) = StoredName(Image, e2) => e1 = e2

====
